---- MODULE Spec2Model ----
(***************************************************************************)
(* A model of Src/ParseJsonRnc.py: the recursive-descent compiler from     *)
(* JSON-RNC to JSON Schema.                                                *)
(*                                                                         *)
(* The module-level globals of the program (schema, defs, refs, token,     *)
(* tokenizer, lines, errorsInSchema) are the variables.  The grammar       *)
(* procedures are operators over a record of those globals, computed as    *)
(* the code computes them; a Python exception is the field exc of that     *)
(* record, and every statement after a raise is skipped.                   *)
(*                                                                         *)
(* Python strings are tuples of string pieces (a piece stands for one or   *)
(* more characters), so that value[1:-1] and "+" act on them.  The other   *)
(* Python values are records tagged by their type in the field t, with the *)
(* payload in a field named after the type, so that values of different    *)
(* types are unequal and never compared inside.                            *)
(*                                                                         *)
(* The input of parseJsonRnc is taken after lexing: one content is the     *)
(* sequence of tokens tokenizeRNC yields for it (every content ends with a *)
(* newline, so the tokens of joined contents are the joined tokens).       *)
(***************************************************************************)
EXTENDS Integers, Sequences, FiniteSets, TLC

VARIABLES
    lines,            \* the contents appended so far (lines[1:], as tokens)
    tokens,           \* what the current tokenizer yields, EOF last
    pos,              \* index in tokens of the global token
    schema,           \* the global schema; defs is schema["definitions"]
    refs,             \* the global set of referenced names
    errorsInSchema,   \* the global error counter
    printed,          \* the diagnostics printed, one sequence per call
    pc,               \* where the process is: idle, parsing, checking, returned, crashed
    returned,         \* what each finished call of parseJsonRnc returned
    raised            \* the exception that left parseJsonRnc, "" when none

vars == <<lines, tokens, pos, schema, refs, errorsInSchema, printed, pc, returned, raised>>

-----------------------------------------------------------------------------
(* Python values *)

None == [t |-> "None"]
PyFalse == [t |-> "bool", b |-> FALSE]
PyStr(s) == [t |-> "str", s |-> s]
PyInt(n) == [t |-> "int", n |-> n]
PyFloat(neg, whole, frac) == [t |-> "float", f |-> <<neg, whole, frac>>]
PyList(xs) == [t |-> "list", l |-> xs]
PyTuple(xs) == [t |-> "tuple", e |-> xs]
\* a dict keeps insertion order: a sequence of <<key, value>>
PyDict(items) == [t |-> "dict", v |-> items]

Keys(d) == {d.v[i][1] : i \in DOMAIN d.v}
KeyList(d) == [i \in DOMAIN d.v |-> d.v[i][1]]
Has(d, k) == \E i \in DOMAIN d.v : d.v[i][1] = k
Get(d, k) == d.v[CHOOSE i \in DOMAIN d.v : d.v[i][1] = k][2]
\* d[k] = x : an existing key keeps its position
SetItem(d, k, x) ==
    IF Has(d, k)
    THEN PyDict([i \in DOMAIN d.v |-> IF d.v[i][1] = k THEN <<k, x>> ELSE d.v[i]])
    ELSE PyDict(Append(d.v, <<k, x>>))

RECURSIVE UpdateItems(_, _)
UpdateItems(d, items) ==
    IF items = <<>> THEN d
    ELSE UpdateItems(SetItem(d, items[1][1], items[1][2]), Tail(items))
\* d.update(e)
Update(d, e) == UpdateItems(d, e.v)

-----------------------------------------------------------------------------
(* Tokens *)

Token(kind, value) == [kind |-> kind, value |-> value]
EOFToken == Token("EOF", <<" ">>)

RECURSIVE Join(_)
Join(ls) == IF ls = <<>> THEN <<>> ELSE ls[1] \o Join(Tail(ls))

\* the generator: the tokens of "".join(lines[1:]), then EOF, then StopIteration
tokenizeRNC(ls) == Join(ls) \o <<EOFToken>>

\* value[1:-1]
Strip(value) == SubSeq(value, 2, Len(value) - 1)

Digit(c) ==
    CASE c = "0" -> 0 [] c = "1" -> 1 [] c = "2" -> 2 [] c = "3" -> 3 [] c = "4" -> 4
      [] c = "5" -> 5 [] c = "6" -> 6 [] c = "7" -> 7 [] c = "8" -> 8 [] c = "9" -> 9

RECURSIVE Digits(_)
Digits(cs) == IF cs = <<>> THEN 0 ELSE 10 * Digits(SubSeq(cs, 1, Len(cs) - 1)) + Digit(cs[Len(cs)])

IsNeg(lex) == lex # <<>> /\ lex[1] = "-"
Unsigned(lex) == IF IsNeg(lex) THEN Tail(lex) ELSE lex
DigitChars == {"0", "1", "2", "3", "4", "5", "6", "7", "8", "9"}
AllDigits(cs) == cs # <<>> /\ \A i \in DOMAIN cs : cs[i] \in DigitChars
\* int(s) raises ValueError unless s is digits after an optional sign
IntParses(lex) == AllDigits(Unsigned(lex))
\* float(s) raises ValueError on a lexeme that is not a number: the word "number"
\* has the token kind of a number (lines 25, 34)
FloatParses(lex) ==
    \E d \in DOMAIN Unsigned(lex) :
        /\ Unsigned(lex)[d] = "."
        /\ AllDigits(SubSeq(Unsigned(lex), 1, d - 1))
        /\ \A i \in (d + 1)..Len(Unsigned(lex)) : Unsigned(lex)[i] \in DigitChars
NumParses(lex) == IntParses(lex) \/ FloatParses(lex)
int(lex) == PyInt(IF IsNeg(lex) THEN 0 - Digits(Unsigned(lex)) ELSE Digits(Unsigned(lex)))

DotAt(lex) == CHOOSE i \in DOMAIN lex : lex[i] = "."
RECURSIVE DropZeros(_)
DropZeros(cs) ==
    IF cs # <<>> /\ cs[Len(cs)] = "0" THEN DropZeros(SubSeq(cs, 1, Len(cs) - 1)) ELSE cs
\* float(s) of a lexeme -?d+.d* : sign, whole part, significant fraction digits
float(lex) ==
    LET u == Unsigned(lex)
        d == DotAt(u)
    IN  PyFloat(IsNeg(lex), Digits(SubSeq(u, 1, d - 1)), DropZeros(SubSeq(u, d + 1, Len(u))))

num(lex) == IF IntParses(lex) THEN int(lex) ELSE float(lex)

-----------------------------------------------------------------------------
(* The globals as one record, and the two primitive steps on it *)

Kind(s) == s.toks[s.pos].kind
Value(s) == s.toks[s.pos].value
Ok(s) == s.exc = ""
Raise(s, e) == IF Ok(s) THEN [s EXCEPT !.exc = e] ELSE s
Ret(s, val) == [s |-> s, val |-> val]

\* token=next(tokenizer): after EOF the generator is exhausted
NextToken(s) ==
    IF ~Ok(s) THEN s
    ELSE IF s.pos < Len(s.toks) THEN [s EXCEPT !.pos = @ + 1]
    ELSE Raise(s, "StopIteration")

\* the loop of lines 137-138 leaving after one token
SkipOne(s, endTokens) ==
    IF ~Ok(s) \/ Kind(s) \in endTokens THEN s ELSE NextToken(s)

RECURSIVE SkipUntil(_, _)
SkipUntil(s, endTokens) ==
    IF ~Ok(s) \/ Kind(s) \in endTokens THEN s
    ELSE SkipUntil(NextToken(s), endTokens)

Members(xs) == {xs.l[i] : i \in DOMAIN xs.l}

\* errorJsrnc counting only the errors it resynchronizes after
errorJsrncUncounted(s, module, message, recoveryTokens) ==
    IF ~Ok(s) THEN s
    ELSE LET s1 == [s EXCEPT !.err = IF recoveryTokens # None THEN @ + 1 ELSE @,
                             !.out = Append(@, message)]
         IN  IF recoveryTokens # None
             THEN SkipUntil(s1, {"EOF"} \cup Members(recoveryTokens))
             ELSE s1

errorJsrnc(s, module, message, recoveryTokens) ==
    IF ~Ok(s) THEN s
    ELSE LET s1 == [s EXCEPT !.err = @ + 1, !.out = Append(@, message)]
         IN  IF recoveryTokens # None
             THEN SkipUntil(s1, {"EOF"} \cup Members(recoveryTokens))
             ELSE s1

-----------------------------------------------------------------------------
(* Facets *)

Lit(x) == <<x>>
NumericTypes == {PyStr(Lit("number")), PyStr(Lit("integer"))}
IdentOrStr == PyList(<<"IDENT", "STR">>)

\* lines 360-372: minimum, maximum
facetMinMax(s, facets, theType, ident) ==
    LET s1 == NextToken(s) IN
    IF Kind(s1) = "EQUAL"
    THEN LET s2 == NextToken(s1) IN
         IF Kind(s2) = "NUMBER"
         THEN IF ~NumParses(Value(s2)) THEN Ret(Raise(s2, "ValueError"), facets) ELSE
              LET s3 == NextToken(s2) IN
              Ret(IF theType # None /\ theType \notin NumericTypes
                  THEN errorJsrnc(s3, "parseFacets",
                           Lit("facet ") \o ident \o Lit(" only applicable to numeric types"), None)
                  ELSE s3,
                  Append(facets, <<ident, num(Value(s2))>>))
         ELSE Ret(errorJsrnc(s2, "parseFacets", Lit("number expected in facet ") \o ident,
                             PyList(<<"NUMBER">>)), facets)
    ELSE Ret(errorJsrnc(s1, "parseFacets", Lit("= expected in facet"), IdentOrStr), facets)

\* lines 373-385: pattern
facetPattern(s, facets, theType, ident) ==
    LET s1 == NextToken(s) IN
    IF Kind(s1) = "EQUAL"
    THEN LET s2 == NextToken(s1) IN
         IF Kind(s2) = "STR"
         THEN LET s3 == NextToken(s2) IN
              Ret(IF theType # None /\ theType # PyStr(Lit("string"))
                  THEN errorJsrnc(s3, "parseFacets",
                           Lit("facet ") \o ident \o Lit(" only applicable to string"), None)
                  ELSE s3,
                  Append(facets, <<ident, PyStr(Strip(Value(s2)))>>))
         ELSE Ret(errorJsrnc(s2, "parseFacets", Lit(" string expected as pattern facet"),
                             PyList(<<"STR">>)), facets)
    ELSE Ret(errorJsrnc(s1, "parseFacets", Lit("= expected in facet"), IdentOrStr), facets)

\* lines 386-398: exclusiveMinimum, exclusiveMaximum
facetExclusive(s, facets, theType, ident) ==
    LET s1 == NextToken(s) IN
    IF Kind(s1) = "EQUAL"
    THEN LET s2 == NextToken(s1) IN
         IF Kind(s2) = "NUMBER"
         THEN IF ~NumParses(Value(s2)) THEN Ret(Raise(s2, "ValueError"), facets) ELSE
              LET s3 == NextToken(s2) IN
              Ret(IF theType # None /\ theType \notin NumericTypes
                  THEN errorJsrnc(s3, "parseFacets",
                           Lit("facet ") \o ident \o Lit(" only applicable to numeric types"), None)
                  ELSE s3,
                  Append(facets, <<ident, num(Value(s2))>>))
         ELSE Ret(errorJsrnc(s2, "parseFacets", Lit("number expected for facet ") \o ident,
                             PyList(<<"STR">>)), facets)
    ELSE Ret(errorJsrnc(s1, "parseFacets", Lit("= expected in facet"), IdentOrStr), facets)

ItemsFacets == {Lit("minItems"), Lit("maxItems")}
PropertiesFacets == {Lit("minProperties"), Lit("maxProperties")}
LengthFacets == {Lit("minLength"), Lit("maxLength")}

\* integerFacetMessage without the test of the length facets
integerFacetMessageNoLength(theType, ident) ==
    IF theType # None /\ ident \in ItemsFacets /\ theType # PyStr(Lit("array"))
    THEN Lit("facet ") \o ident \o Lit(" only applicable to array types")
    ELSE IF theType # None /\ ident \in PropertiesFacets /\ theType # PyStr(Lit("object"))
    THEN Lit("facet ") \o ident \o Lit(" only applicable to object types")
    ELSE <<>>

\* lines 406-411: the applicability test of the integer-valued facets
integerFacetMessage(theType, ident) ==
    IF theType # None /\ ident \in ItemsFacets /\ theType # PyStr(Lit("array"))
    THEN Lit("facet ") \o ident \o Lit(" only applicable to array types")
    ELSE IF theType # None /\ ident \in PropertiesFacets /\ theType # PyStr(Lit("object"))
    THEN Lit("facet ") \o ident \o Lit(" only applicable to object types")
    ELSE IF theType # None /\ ident \in LengthFacets /\ theType # PyStr(Lit("string"))
    THEN Lit("facet ") \o ident \o Lit(" only applicable to string types")
    ELSE <<>>

\* lines 399-415: minItems, maxItems, minProperties, maxProperties, minLength, maxLength
facetInteger(s, facets, theType, ident) ==
    LET s1 == NextToken(s) IN
    IF Kind(s1) = "EQUAL"
    THEN LET s2 == NextToken(s1) IN
         IF Kind(s2) = "NUMBER"
         THEN IF ~IntParses(Value(s2))
              THEN Ret(Raise(s2, "ValueError"), facets)
              ELSE LET s3 == NextToken(s2)
                       m == integerFacetMessage(theType, ident)
                   IN  Ret(IF m # <<>> THEN errorJsrnc(s3, "parseFacets", m, None) ELSE s3,
                           Append(facets, <<ident, int(Value(s2))>>))
         ELSE Ret(errorJsrnc(s2, "parseFacets", Lit("number expected in facet ") \o ident,
                             PyList(<<"NUMBER">>)), facets)
    ELSE Ret(errorJsrnc(s1, "parseFacets", Lit("= expected in facet"), IdentOrStr), facets)

\* lines 422-423, at the end of an iteration that did not break
facetComma(r) == IF Kind(r.s) = "COMMA" THEN Ret(NextToken(r.s), r.val) ELSE r

\* lines 360, 373, 386, 399: the facet names of the branches that do not break
FacetIds ==
    {Lit("minimum"), Lit("maximum"), Lit("pattern"), Lit("exclusiveMinimum"),
     Lit("exclusiveMaximum")} \cup ItemsFacets \cup PropertiesFacets \cup LengthFacets

\* lines 358-415, 422-423: one iteration of the while loop at a facet name of FacetIds
facetStep(s, facets, theType) ==
    LET ident == Value(s) IN
    IF ident \in {Lit("minimum"), Lit("maximum")}
    THEN facetComma(facetMinMax(s, facets, theType, ident))
    ELSE IF ident = Lit("pattern")
    THEN facetComma(facetPattern(s, facets, theType, ident))
    ELSE IF ident = Lit("exclusiveMinimum") \/ ident = Lit("exclusiveMaximum")
    THEN facetComma(facetExclusive(s, facets, theType, ident))
    ELSE facetComma(facetInteger(s, facets, theType, ident))

\* lines 357-423: the while loop; it ends at CLOSE_PAREN or at a break
RECURSIVE facetLoop(_, _, _)
facetLoop(s, facets, theType) ==
    IF ~Ok(s) \/ Kind(s) = "CLOSE_PAREN" THEN Ret(s, facets)
    ELSE IF Kind(s) \in {"IDENT", "STR"}
    THEN IF Value(s) \in FacetIds
         THEN LET Then(r) == facetLoop(r.s, r.val, theType)
              IN  Then(facetStep(s, facets, theType))
         ELSE Ret(errorJsrnc(s, "parseFacets", Lit("unrecognized facet:") \o Value(s),
                             IdentOrStr), facets)
    ELSE Ret(errorJsrnc(s, "parseFacets", Lit("identifier expected in facet"), IdentOrStr),
             facets)

parseFacets(s, theType) ==
    IF ~Ok(s) THEN Ret(s, <<>>)
    ELSE IF Kind(s) = "OPEN_PAREN"
    THEN LET Then(r) == Ret(NextToken(r.s), r.val)
         IN  Then(facetLoop(NextToken(s), <<>>, theType))
    ELSE Ret(errorJsrnc(s, "parseFacets",
                 Lit("open parenthesis expected at the start of a facet"), IdentOrStr), <<>>)

checkFacets(s, res) ==
    IF ~Ok(s) THEN Ret(s, res)
    ELSE IF Kind(s) = "AT"
    THEN LET theType == IF Has(res, Lit("type")) THEN Get(res, Lit("type")) ELSE None
             Then(r) == Ret(r.s, UpdateItems(res, r.val))
         IN  Then(parseFacets(NextToken(s), theType))
    ELSE Ret(s, res)

-----------------------------------------------------------------------------
(* Property lists *)

\* mergeOne keeping the first type of a repeated name and requiring every name
mergeOneFirstWins(s, acc, po) ==
    IF po # None /\ po.t = "tuple"
    THEN LET prop == po.e[1]
             additionalProp == po.e[3]
             found == IF additionalProp # PyFalse THEN additionalProp ELSE acc[3]
         IN  IF Len(prop.v) > 0
             THEN LET key == prop.v[1][1] IN
                  Ret(IF Has(acc[1], key)
                      THEN errorJsrnc(s, "mergeProps", Lit("repeated property name:") \o key, None)
                      ELSE s,
                      <<IF Has(acc[1], key) THEN acc[1] ELSE Update(acc[1], prop),
                        Append(acc[2], PyStr(key)),
                        found>>)
             ELSE Ret(s, <<acc[1], acc[2], found>>)
    ELSE Ret(s, acc)

\* lines 266-278: one iteration of the for loop; acc is <<res, required, additionalPropertiesFound>>
mergeOne(s, acc, po) ==
    IF po # None /\ po.t = "tuple"
    THEN LET prop == po.e[1]
             optional == po.e[2]
             additionalProp == po.e[3]
             found == IF additionalProp # PyFalse THEN additionalProp ELSE acc[3]
         IN  IF Len(prop.v) > 0
             THEN LET key == prop.v[1][1] IN
                  Ret(IF Has(acc[1], key)
                      THEN errorJsrnc(s, "mergeProps", Lit("repeated property name:") \o key, None)
                      ELSE s,
                      <<Update(acc[1], prop),
                        IF ~optional THEN Append(acc[2], PyStr(key)) ELSE acc[2],
                        found>>)
             ELSE Ret(s, <<acc[1], acc[2], found>>)
    ELSE Ret(s, acc)

RECURSIVE mergeLoop(_, _, _)
mergeLoop(s, acc, pos_) ==
    IF pos_ = <<>> THEN Ret(s, acc)
    ELSE LET Then(r) == mergeLoop(r.s, r.val, Tail(pos_))
         IN  Then(mergeOne(s, acc, pos_[1]))

\* props is always the list parseProps returns: the branches for None and for a
\* value that is no list (lines 261, 264-265) are never taken
mergeProps(s, props) == mergeLoop(s, <<PyDict(<<>>), <<>>, PyFalse>>, props.l)

-----------------------------------------------------------------------------------------------------------------------------------------------------
(* Types and properties.  Each procedure is written with one place per     *)
(* callee: the branches of the code that end in the same call share it.    *)

RECURSIVE parseTypes(_), typesLoop(_, _), parseType(_), typeHead(_), parseProps(_),
          propsLoop(_, _), parseProp(_)

PrimitiveKinds == {"STRING", "INTEGER", "NUMBER", "BOOLEAN", "NULL"}

\* res = parseType() at line 173, then lines 183-185 while the token is VERT_BAR:
\* the types parsed, in order
typesLoop(s, res1) ==
    LET Then(r) ==
            IF Ok(r.s) /\ Kind(r.s) = "VERT_BAR"
            THEN typesLoop(NextToken(r.s), Append(res1, r.val))
            ELSE Ret(r.s, Append(res1, r.val))
    IN  Then(parseType(s))

\* lines 174-179: after the first type a COMMA is met: {res1} raises TypeError for a
\* dict (unhashable); for None the set is built, and res1.update raises
\* AttributeError in the first iteration
typesOf(l) ==
    IF ~Ok(l.s) THEN Ret(l.s, None)
    ELSE IF Len(l.val) > 1
    THEN Ret(l.s, PyDict(<< <<Lit("oneOf"), PyList(l.val)>> >>))
    ELSE IF Kind(l.s) = "COMMA"
    THEN IF l.val[1].t = "dict"
         THEN Ret(Raise(l.s, "TypeError"), None)
         ELSE Ret(Raise(NextToken(l.s), "AttributeError"), None)
    ELSE Ret(l.s, l.val[1])

parseTypes(s) == typesOf(typesLoop(s, <<>>))

\* a type up to the place where its facets may follow
Partial(s, res, facets) == [s |-> s, val |-> res, facets |-> facets]

\* lines 225-232
objectOf(m) ==
    LET res0 == PyDict(<< <<Lit("type"), PyStr(Lit("object"))>>,
                          <<Lit("required"), PyList(m.val[2])>>,
                          <<Lit("additionalProperties"), m.val[3]>> >>)
        res == IF Len(m.val[1].v) > 0 THEN SetItem(res0, Lit("properties"), m.val[1]) ELSE res0
    IN  IF Kind(m.s) = "CLOSE_BRACE"
        THEN Partial(NextToken(m.s), res, TRUE)
        ELSE Partial(errorJsrnc(m.s, "parseType", Lit("closing brace expected"),
                             PyList(<<"CLOSE_BRACE">>)), res, FALSE)

objectType(p) == objectOf(mergeProps(p.s, p.val))

\* lines 240-245
arrayType(t) ==
    LET res == PyDict(<< <<Lit("type"), PyStr(Lit("array"))>>, <<Lit("items"), t.val>> >>)
    IN  IF Kind(t.s) = "CLOSE_BRACKET"
        THEN Partial(NextToken(t.s), res, TRUE)
        ELSE Partial(errorJsrnc(t.s, "parseType", Lit("closing bracket expected"),
                             PyList(<<"CLOSE_BRACKET">>)), res, FALSE)

\* lines 248-252
groupType(t) ==
    IF Kind(t.s) = "CLOSE_PAREN"
    THEN Partial(NextToken(t.s), t.val, FALSE)
    ELSE Partial(errorJsrnc(t.s, "parseType", Lit("closing parenthesis expected"),
                         PyList(<<"CLOSE_PAREN">>)), t.val, FALSE)

\* lines 200-254 without the calls of checkFacets
typeHead(s) ==
    LET s1 == NextToken(s) IN
    IF Kind(s) \in PrimitiveKinds
    THEN Partial(s1, PyDict(<< <<Lit("type"), PyStr(Value(s))>> >>), TRUE)
    ELSE IF Kind(s) = "IDENT"
    THEN Partial([s1 EXCEPT !.refs = @ \cup {Value(s)}],
              PyDict(<< <<Lit("$ref"), PyStr(Lit("#/definitions/") \o Value(s))>> >>), TRUE)
    ELSE IF Kind(s) = "STR"
    THEN Partial([s1 EXCEPT !.refs = @ \cup {Strip(Value(s))}],
              PyDict(<< <<Lit("$ref"), PyStr(Lit("#/definitions/") \o Strip(Value(s)))>> >>), TRUE)
    ELSE IF Kind(s) = "REGEX"
    THEN Partial(s1, PyDict(<< <<Lit("type"), PyStr(Lit("string"))>>,
                            <<Lit("pattern"), PyStr(Strip(Value(s)))>> >>), TRUE)
    ELSE IF Kind(s) = "OPEN_BRACE"
    THEN IF Kind(s1) = "CLOSE_BRACE"
         THEN Partial(NextToken(s1), PyDict(<< <<Lit("type"), PyStr(Lit("object"))>> >>), TRUE)
         ELSE objectType(parseProps(s1))
    ELSE IF Kind(s) = "OPEN_BRACKET" /\ Kind(s1) = "CLOSE_BRACKET"
    THEN Partial(NextToken(s1), PyDict(<< <<Lit("type"), PyStr(Lit("array"))>> >>), TRUE)
    ELSE IF Kind(s) \in {"OPEN_BRACKET", "OPEN_PAREN"}
    THEN LET Then(t) == IF Kind(s) = "OPEN_BRACKET" THEN arrayType(t) ELSE groupType(t)
         IN  Then(parseTypes(s1))
    ELSE Partial(errorJsrnc(s, "parseType", Lit("ident or json type expected"), IdentOrStr),
              None, FALSE)

parseType(s) ==
    IF ~Ok(s) THEN Ret(s, None)
    ELSE LET Then(h) == IF h.facets THEN checkFacets(h.s, h.val) ELSE Ret(h.s, h.val)
         IN  Then(typeHead(s))

\* res = [parseProp()] at line 286, then lines 287-289
propsLoop(s, res) ==
    LET Then(r) ==
            IF Ok(r.s) /\ Kind(r.s) \in {"COMMA", "IDENT", "STR", "OPEN_PAREN"}
            THEN propsLoop(IF Kind(r.s) = "COMMA" THEN NextToken(r.s) ELSE r.s,
                           Append(res, r.val))
            ELSE Ret(r.s, Append(res, r.val))
    IN  Then(parseProp(s))

parseProps(s) ==
    LET Then(l) == Ret(l.s, PyList(l.val)) IN Then(propsLoop(s, <<>>))

\* lines 317-323
groupProp(p) ==
    IF Kind(p.s) = "CLOSE_PAREN"
    THEN Ret(NextToken(p.s), p.val)
    ELSE Ret(errorJsrnc(p.s, "parseProp", Lit("closing paren expected"),
                        PyList(<<"CLOSE_PAREN">>)), p.val)

\* lines 298-316: a named property or a "*" rule
parseProp(s) ==
    IF ~Ok(s) THEN Ret(s, None)
    ELSE IF Kind(s) \in {"IDENT", "STR", "STAR"}
    THEN LET star == Kind(s) = "STAR"
             ident == IF Kind(s) = "IDENT" THEN Value(s) ELSE Strip(Value(s))
             s1 == NextToken(s)
             optional == ~star /\ Kind(s1) = "INTERROGATION"
             s2 == IF optional THEN NextToken(s1) ELSE s1
         IN  IF Kind(s2) = "COLON"
             THEN LET Then(t) ==
                          Ret(t.s, IF star THEN PyTuple(<<PyDict(<<>>), FALSE, t.val>>)
                                   ELSE PyTuple(<<PyDict(<< <<ident, t.val>> >>), optional, PyFalse>>))
                  IN  Then(parseType(NextToken(s2)))
             ELSE IF star
             THEN Ret(errorJsrnc(s2, "parseProp", Lit("colon expected after *"), IdentOrStr), None)
             ELSE Ret(s2, PyTuple(<<PyDict(<< <<ident, None>> >>), optional, PyFalse>>))
    ELSE IF Kind(s) = "OPEN_PAREN"
    THEN groupProp(parseProps(NextToken(s)))
    ELSE Ret(errorJsrnc(s, "parseProp",
                 Lit("ident, string or open parenthesis expected at the start of a prop"),
                 IdentOrStr), None)

-----
(* Definitions *)

Definitions == Lit("definitions")
defsOf(sch) == Get(sch, Definitions)

\* lines 159-165, after typedef = parseTypes() returned
storeDef(s, ident, is_start, typedef) ==
    LET Then(s1) ==
            IF typedef # None
            THEN IF is_start
                 THEN [s1 EXCEPT !.schema = Update(@, typedef)]
                 ELSE [s1 EXCEPT !.schema = SetItem(@, Definitions, SetItem(defsOf(@), ident, typedef))]
            ELSE s1
    IN  Then(IF Has(defsOf(s.schema), ident)
             THEN errorJsrnc(s, "parseDef", Lit("double definition for ") \o ident, None)
             ELSE s)

parseDef(s) ==
    LET named == Kind(s) \in {"IDENT", "STR", "START"}
        is_start == named /\ Kind(s) = "START"
        ident == IF ~named THEN Lit("**dummy**")
                 ELSE IF Kind(s) = "STR" THEN Strip(Value(s)) ELSE Value(s)
        s1 == IF named THEN s
              ELSE errorJsrnc(s, "parseDef", Lit("identifier expected at start of definition"),
                              PyList(<<"IDENT">>))
        AfterName(s2) ==
            IF ~Ok(s2) THEN s2
            ELSE IF Kind(s2) = "EQUAL" THEN NextToken(s2)
            ELSE errorJsrnc(s2, "parseDef", Lit("equal expected in a definition"), None)
        Then(t) == IF Ok(t.s) THEN storeDef(t.s, ident, is_start, t.val) ELSE t.s
    IN  Then(parseTypes(AfterName(NextToken(s1))))

-----------------------------------------------------------------------------
(* parseJsonRnc *)

Globals ==
    [toks |-> tokens, pos |-> pos, err |-> errorsInSchema, out |-> printed[Len(printed)],
     refs |-> refs, schema |-> schema, exc |-> ""]

\* the globals as s leaves them; what was printed goes to the current call
Store(s) ==
    /\ pos' = s.pos
    /\ errorsInSchema' = s.err
    /\ printed' = [printed EXCEPT ![Len(printed)] = s.out]
    /\ refs' = s.refs
    /\ schema' = s.schema

\* lines 118-121
InitialSchema ==
    PyDict(<< <<Lit("$schema"), PyStr(Lit("http://json-schema.org/draft-07/schema#"))>>,
              <<Definitions, PyDict(<<>>)>> >>)

\* lines 115-126
Init ==
    /\ lines = <<>>
    /\ tokens = <<>>
    /\ pos = 0
    /\ schema = InitialSchema
    /\ refs = {}
    /\ errorsInSchema = 0
    /\ printed = <<>>
    /\ pc = "idle"
    /\ returned = <<>>
    /\ raised = ""

\* lines 437-441, and the first test of the while at line 443
Enter(content) ==
    /\ lines' = Append(lines, content)
    /\ tokens' = tokenizeRNC(lines')
    /\ pos' = 1
    /\ printed' = Append(printed, <<>>)
    /\ pc' = IF tokens'[1].kind = "EOF" THEN "checking" ELSE "parsing"
    /\ UNCHANGED <<schema, refs, errorsInSchema, returned, raised>>

\* lines 443-446: one iteration of the while loop.  StopIteration ends the loop in
\* the except clause; any other exception leaves parseJsonRnc
ParseDef ==
    /\ pc = "parsing"
    /\ \E s \in {parseDef(Globals)} :
          IF s.exc = ""
          THEN /\ Store(s)
               /\ pc' = IF Kind(s) = "EOF" THEN "checking" ELSE "parsing"
               /\ UNCHANGED raised
          ELSE IF s.exc = "StopIteration"
          THEN /\ Store(errorJsrnc([s EXCEPT !.exc = ""], "main", Lit("unexpected end of file"), None))
               /\ pc' = "checking"
               /\ UNCHANGED raised
          ELSE /\ Store(s)
               /\ pc' = "crashed"
               /\ raised' = s.exc
    /\ UNCHANGED <<lines, tokens, returned>>

StartKeys == {Lit("type"), Lit("oneOf"), Lit("$ref")}

\* lines 448-449
checkStart(s) ==
    IF (\A t \in StartKeys : ~Has(s.schema, t)) /\ ~Has(defsOf(s.schema), Lit("start"))
    THEN errorJsrnc(s, "main", Lit("no start definition"), None)
    ELSE s

\* the loop of lines 450-452 without the test of line 451
RECURSIVE checkRefsUntested(_, _)
checkRefsUntested(s, order) ==
    IF order = <<>> THEN s
    ELSE checkRefsUntested(
             errorJsrnc(s, "main", Lit("no definition found for ") \o order[1], None),
             Tail(order))

\* lines 450-452, for the references taken in the order given
RECURSIVE checkRefs(_, _)
checkRefs(s, order) ==
    IF order = <<>> THEN s
    ELSE checkRefs(IF ~Has(defsOf(s.schema), order[1])
                   THEN errorJsrnc(s, "main", Lit("no definition found for ") \o order[1], None)
                   ELSE s,
                   Tail(order))

Orders(S) == {o \in [1..Cardinality(S) -> S] : \A i, j \in DOMAIN o : i # j => o[i] # o[j]}

\* lines 453
result(s) == IF s.err = 0 THEN s.schema ELSE PyInt(s.err)

\* lines 447-453; a set is iterated in an order the program does not choose
PostPass ==
    /\ pc = "checking"
    /\ \E order \in Orders(refs) :
          \E s \in {checkRefs(checkStart(Globals), order)} :
             /\ Store(s)
             /\ returned' = Append(returned, result(s))
    /\ pc' = "returned"
    /\ UNCHANGED <<lines, tokens, raised>>

\* lines 437-441: the globals when parseJsonRnc is first called, on content
Fresh(content) ==
    [toks |-> tokenizeRNC(<<content>>), pos |-> 1, err |-> 0, out |-> <<>>,
     refs |-> {}, schema |-> InitialSchema, exc |-> ""]

\* lines 442-447: the while loop
RECURSIVE defsLoop(_)
defsLoop(s) ==
    IF s.exc = "StopIteration"
    THEN errorJsrnc([s EXCEPT !.exc = ""], "main", Lit("unexpected end of file"), None)
    ELSE IF s.exc # "" \/ Kind(s) = "EOF" THEN s
    ELSE defsLoop(parseDef(s))

\* lines 448-453, after the loop left the globals as s
checked(s) ==
    IF s.exc # "" THEN s
    ELSE checkRefs(checkStart(s), CHOOSE order \in Orders(s.refs) : TRUE)

\* lines 435-453: what the first call of parseJsonRnc returns or raises, and what
\* it prints when line 450 iterates over refs in the order chosen
parseJsonRnc(content) ==
    LET Then(s) == IF s.exc # "" THEN [out |-> s.out, raised |-> s.exc]
                   ELSE [out |-> s.out, returned |-> result(s)]
    IN  Then(checked(defsLoop(Fresh(content))))

\* lines 455-469: the program calls parseJsonRnc once, on the content of its input
Compile(contents) ==
    /\ pc = "idle"
    /\ \E content \in contents : Enter(content)

\* a caller that imports the module calls parseJsonRnc again after it returned
Recompile(contents) ==
    /\ pc = "returned"
    /\ \E content \in contents : Enter(content)

-----------------------------------------------------------------------------
(* The tokens the lexer yields (lines 32-51, 68-72), by kind and lexeme *)

Word(kind, lexeme) == Token(kind, Lit(lexeme))
tSTART == Word("START", "start")
tSTRING == Word("STRING", "string")
tINTEGER == Word("INTEGER", "integer")
tNUMBER == Word("NUMBER", "number")
tBOOLEAN == Word("BOOLEAN", "boolean")
tNULL == Word("NULL", "null")
tEQUAL == Word("EQUAL", "=")
tCOMMA == Word("COMMA", ",")
tVERT_BAR == Word("VERT_BAR", "|")
tCOLON == Word("COLON", ":")
tSTAR == Word("STAR", "*")
tAT == Word("AT", "@")
tINTERROGATION == Word("INTERROGATION", "?")
tOPEN_BRACE == Word("OPEN_BRACE", "{")
tCLOSE_BRACE == Word("CLOSE_BRACE", "}")
tOPEN_BRACKET == Word("OPEN_BRACKET", "[")
tCLOSE_BRACKET == Word("CLOSE_BRACKET", "]")
tOPEN_PAREN == Word("OPEN_PAREN", "(")
tCLOSE_PAREN == Word("CLOSE_PAREN", ")")
Ident(name) == Word("IDENT", name)
\* a quoted string: the lexeme keeps its quotes
Quoted(name) == Token("STR", <<"\"", name, "\"">>)
Regex(body) == Token("REGEX", <<"/", body, "/">>)
\* a number: the lexeme is its characters
Number(chars) == Token("NUMBER", chars)

\* all sequences over S of length at most n
SeqsUpTo(S, n) == UNION {[1..k -> S] : k \in 0..n}

-----------------------------------------------------------------------------
(* Spec: one compilation of any token sequence over a small alphabet *)

MaxTokens == 4

Alphabet ==
    {tSTART, tEQUAL, Ident("a"), tSTRING, tCOMMA, tVERT_BAR, tOPEN_BRACKET, tCLOSE_BRACKET}

Next == Compile(SeqsUpTo(Alphabet, MaxTokens)) \/ ParseDef \/ PostPass

Spec == Init /\ [][Next]_vars

\* the diagnostics printed by the calls 1..k
RECURSIVE PrintedUpTo(_)
PrintedUpTo(k) == IF k = 0 THEN 0 ELSE PrintedUpTo(k - 1) + Len(printed[k])

\* C1: the error counter is the number of diagnostics printed so far, and a call
\* of parseJsonRnc returns the schema if and only if that number is zero when it
\* returns, and the counter otherwise: no document is returned after a diagnostic
C1_DocumentIffNoDiagnostic ==
    /\ errorsInSchema = PrintedUpTo(Len(printed))
    /\ \A k \in DOMAIN returned :
          /\ returned[k].t \in {"dict", "int"}
          /\ returned[k].t = "dict" <=> PrintedUpTo(k) = 0
          /\ returned[k].t = "int" => returned[k].n = PrintedUpTo(k)
    /\ pc = "returned" =>
          returned[Len(returned)] = IF errorsInSchema = 0 THEN schema ELSE PyInt(errorsInSchema)

\* a call that printed several diagnostics returned their number
C1_Witness ==
    /\ pc = "returned"
    /\ Len(printed[1]) = 3
    /\ returned[1] = PyInt(3)

\* C2: no compilation ends in an exception leaving parseJsonRnc
C2_NeverAborts == pc # "crashed"

-----------------------------------------------------------------------------
(* SpecDefs: one compilation of a sequence of well-formed definitions *)

MaxDefs == 2

DefHeads == {tSTART, Ident("a"), Ident("b"), Quoted("start")}
DefBodies ==
    {<<tSTRING>>, <<Ident("a")>>, <<Ident("b")>>, <<Quoted("b")>>,
     <<Ident("a"), tVERT_BAR, Ident("a")>>, <<Ident("a"), tVERT_BAR, Ident("b")>>,
     <<tOPEN_BRACKET, Ident("b"), tCLOSE_BRACKET>>}
DefTexts == {<<head, tEQUAL>> \o body : head \in DefHeads, body \in DefBodies}
DefContents == {Join(ds) : ds \in SeqsUpTo(DefTexts, MaxDefs)}

NextDefs == Compile(DefContents) \/ ParseDef \/ PostPass

SpecDefs == Init /\ [][NextDefs]_vars

\* the name a token gives: a quoted string without its quotes
NameOf(tok) == IF tok.kind = "STR" THEN Strip(tok.value) ELSE tok.value
IsName(tok) == tok.kind \in {"IDENT", "STR"}
\* in a sequence of definitions a name heads a definition when "=" follows it, and
\* is in a type position otherwise
HeadPositions(toks) == {i \in 1..(Len(toks) - 1) : toks[i + 1].kind = "EQUAL"}
ReferencePositions(toks, n) ==
    {i \in 1..(Len(toks) - 1) : IsName(toks[i]) /\ NameOf(toks[i]) = n /\ i \notin HeadPositions(toks)}
Defined(toks, n) == \E i \in HeadPositions(toks) : IsName(toks[i]) /\ NameOf(toks[i]) = n
NamesIn(toks) == {NameOf(toks[i]) : i \in {j \in DOMAIN toks : IsName(toks[j])}}

\* how many times the current call printed message m
Count(m) ==
    Cardinality({i \in DOMAIN printed[Len(printed)] : printed[Len(printed)][i] = m})
NoDefinitionFound(n) == Lit("no definition found for ") \o n

\* C4: when parseJsonRnc has returned, each name used as a reference in the input
\* and defined nowhere in it has exactly one 'no definition found' diagnostic,
\* however often it is used, and every other name has none
C4_OneDiagnosticPerUnresolvedName ==
    pc = "returned" =>
        \A n \in NamesIn(tokens) :
            Count(NoDefinitionFound(n)) =
                IF ReferencePositions(tokens, n) # {} /\ ~Defined(tokens, n) THEN 1 ELSE 0

\* a name referenced twice and never defined got its one diagnostic, and a name
\* referenced before its definition got none
C4_Witness ==
    /\ pc = "returned"
    /\ Cardinality(ReferencePositions(tokens, Lit("a"))) = 2
    /\ ~Defined(tokens, Lit("a"))
    /\ Count(NoDefinitionFound(Lit("a"))) = 1
    /\ \E i \in ReferencePositions(tokens, Lit("b")) :
          \E j \in HeadPositions(tokens) : j > i /\ NameOf(tokens[j]) = Lit("b")
    /\ Count(NoDefinitionFound(Lit("b"))) = 0

StartDeclared(toks) == \E i \in HeadPositions(toks) : toks[i].kind = "START"

\* C5: when parseJsonRnc has returned, 'no start definition' was reported whenever
\* the input has no definition headed by the start keyword and the schema carries
\* none of the keys type, oneOf, $ref
C5_NoEntryPointIsDiagnosed ==
    pc = "returned" =>
        ((~StartDeclared(tokens) /\ \A key \in StartKeys : ~Has(schema, key))
            => Count(Lit("no start definition")) = 1)

-----------------------------------------------------------------------------
(* SpecTwice: a process that calls parseJsonRnc again after it returned *)

MaxCalls == 2

TwiceContents == {Join(ds) : ds \in SeqsUpTo(DefTexts, 1)}

NextTwice ==
    \/ Compile(TwiceContents)
    \/ (Len(lines) < MaxCalls /\ Recompile(TwiceContents))
    \/ ParseDef
    \/ PostPass

SpecTwice == Init /\ [][NextTwice]_vars

\* C3: two calls of parseJsonRnc on the same content return the same thing, the
\* same document or the same number of diagnostics
C3_SameInputSameResult ==
    \A j, k \in DOMAIN returned : lines[j] = lines[k] => returned[j] = returned[k]

-----------------------------------------------------------------------------
(* SpecProps: one compilation of  start = { property ... }  *)

MaxProps == 3

NamedProps ==
    {<<Ident("a"), tCOLON, tSTRING>>, <<Ident("a"), tINTERROGATION, tCOLON, tINTEGER>>,
     <<Ident("b"), tCOLON, tSTRING>>, <<Ident("b"), tINTERROGATION, tCOLON, tINTEGER>>}
StarProps == {<<tSTAR, tCOLON, ty>> : ty \in {tBOOLEAN, tINTEGER}}
GroupProps == {<<tOPEN_PAREN, Ident("a"), tCOLON, tINTEGER, tCLOSE_PAREN>>}
PropTexts == NamedProps \cup StarProps \cup GroupProps

\* the first n of the properties props, each after the first with a comma before
\* it where commas says so
RECURSIVE PropList(_, _, _)
PropList(props, commas, n) ==
    IF n = 1 THEN props[1]
    ELSE PropList(props, commas, n - 1) \o (IF commas[n] THEN <<tCOMMA>> ELSE <<>>) \o props[n]

PropContent(props, commas) ==
    <<tSTART, tEQUAL, tOPEN_BRACE>> \o PropList(props, commas, Len(props)) \o <<tCLOSE_BRACE>>

NextProps ==
    \/ \E n \in 1..MaxProps :
          \E props \in [1..n -> PropTexts], commas \in [2..n -> BOOLEAN] :
             Compile({PropContent(props, commas)})
    \/ ParseDef
    \/ PostPass

SpecProps == Init /\ [][NextProps]_vars

\* the elements of a finite set of numbers in increasing order
Ascending(S) ==
    CHOOSE f \in [1..Cardinality(S) -> S] : \A i, j \in 1..Cardinality(S) : i < j => f[i] < f[j]

\* Read off the input: every ":" belongs to one property descriptor; before it
\* stands "*", or the name, or the name and "?"; after it the primitive type
Colons(toks) == {i \in DOMAIN toks : toks[i].kind = "COLON"}
IsStarRule(toks, i) == toks[i - 1].kind = "STAR"
IsOptional(toks, i) == toks[i - 1].kind = "INTERROGATION"
PropName(toks, i) == NameOf(IF IsOptional(toks, i) THEN toks[i - 2] ELSE toks[i - 1])
PropType(toks, i) == PyDict(<< <<Lit("type"), PyStr(toks[i + 1].value)>> >>)
Named(toks) == {i \in Colons(toks) : ~IsStarRule(toks, i)}
StarRules(toks) == {i \in Colons(toks) : IsStarRule(toks, i)}
Occurrences(toks, n) == {i \in Named(toks) : PropName(toks, i) = n}
Max(S) == CHOOSE i \in S : \A j \in S : j <= i
Min(S) == CHOOSE i \in S : \A j \in S : i <= j

HasGroup(toks) == \E i \in DOMAIN toks : toks[i].kind = "OPEN_PAREN"
\* every "*" rule is the first property or follows a comma
StarsAfterComma(toks) ==
    \A i \in DOMAIN toks : toks[i].kind = "STAR" => toks[i - 1].kind \in {"COMMA", "OPEN_BRACE"}

PropertiesOf(obj) == IF Has(obj, Lit("properties")) THEN Get(obj, Lit("properties")) ELSE PyDict(<<>>)

\* the object assembled is the one the descriptors of toks describe
AssembledFrom(obj, toks) ==
    LET props == PropertiesOf(obj)
        required == Ascending({i \in Named(toks) : ~IsOptional(toks, i)})
    IN  /\ Get(obj, Lit("type")) = PyStr(Lit("object"))
        /\ Keys(props) = {PropName(toks, i) : i \in Named(toks)}
        /\ \A p, q \in DOMAIN props.v :
              p < q => Min(Occurrences(toks, props.v[p][1])) < Min(Occurrences(toks, props.v[q][1]))
        /\ \A n \in Keys(props) : Get(props, n) = PropType(toks, Max(Occurrences(toks, n)))
        /\ Get(obj, Lit("required")) =
              PyList([k \in DOMAIN required |-> PyStr(PropName(toks, required[k]))])
        /\ Get(obj, Lit("additionalProperties")) =
              IF StarRules(toks) = {} THEN PyFalse ELSE PropType(toks, Max(StarRules(toks)))

\* C6: for a property list without parenthesized groups whose "*" rules follow a
\* comma, the object has: properties, the names in the order of their first
\* occurrence, each with the type of its last occurrence; required, the name of
\* every property not marked "?", in the order met and once for each time it is
\* met; additionalProperties, false
\* without a "*" rule and the type of the last "*" rule otherwise
C6_ObjectAssembly ==
    (pc = "returned" /\ ~HasGroup(tokens) /\ StarsAfterComma(tokens))
        => AssembledFrom(schema, tokens)

\* { a: string, b?: integer, *: boolean }
C6_Witness ==
    /\ pc = "returned"
    /\ lines[1] = <<tSTART, tEQUAL, tOPEN_BRACE, Ident("a"), tCOLON, tSTRING, tCOMMA,
                    Ident("b"), tINTERROGATION, tCOLON, tINTEGER, tCOMMA,
                    tSTAR, tCOLON, tBOOLEAN, tCLOSE_BRACE>>
    /\ Get(schema, Lit("required")) = PyList(<<PyStr(Lit("a"))>>)
    /\ Get(schema, Lit("properties")) =
          PyDict(<< <<Lit("a"), PyDict(<< <<Lit("type"), PyStr(Lit("string"))>> >>)>>,
                    <<Lit("b"), PyDict(<< <<Lit("type"), PyStr(Lit("integer"))>> >>)>> >>)
    /\ Get(schema, Lit("additionalProperties")) =
          PyDict(<< <<Lit("type"), PyStr(Lit("boolean"))>> >>)

RepeatedProperty(n) == Lit("repeated property name:") \o n

\* C7: in a property list whose "*" rules follow a comma, the properties of a
\* parenthesized group count like those written directly: every name of the list
\* is a key of properties, and a name met more than once is diagnosed
C7_GroupFlattened ==
    (pc = "returned" /\ StarsAfterComma(tokens)) =>
        /\ Keys(PropertiesOf(schema)) = {PropName(tokens, i) : i \in Named(tokens)}
        /\ \A n \in NamesIn(tokens) :
              Cardinality(Occurrences(tokens, n)) > 1 => Count(RepeatedProperty(n)) >= 1

\* toks with a comma before each property that has none: a property begins at a
\* name, at "*" or at "(", and is the first of its list after "{" or "("
BeginsProperty(tok) == tok.kind \in {"IDENT", "STR", "STAR", "OPEN_PAREN"}
RECURSIVE WithCommas(_)
WithCommas(toks) ==
    IF Len(toks) < 2 THEN toks
    ELSE LET n == Len(toks)
             front == WithCommas(SubSeq(toks, 1, n - 1))
         IN  IF BeginsProperty(toks[n]) /\ toks[n - 1].kind \notin {"COMMA", "OPEN_BRACE", "OPEN_PAREN"}
             THEN front \o <<tCOMMA, toks[n]>>
             ELSE Append(front, toks[n])

DistinctNames(toks) == \A n \in NamesIn(toks) : Cardinality(Occurrences(toks, n)) <= 1

\* C10: a property list of distinct names in which properties follow one another
\* without a comma, be they named properties, "*" rules or parenthesized groups,
\* is compiled without diagnostic and to what the list compiles to with a comma
\* between every two properties
C10_CommaOptional ==
    (pc = "returned" /\ DistinctNames(tokens)) =>
        /\ printed[1] = <<>>
        /\ returned[1] = parseJsonRnc(WithCommas(lines[1])).returned

-----------------------------------------------------------------------------
(* SpecFacets: one compilation of  start = type @( facet, ... )  *)

MaxFacets == 2

Facet(name, value) == <<Ident(name), tEQUAL, value>>
FacetTexts ==
    {Facet("minimum", Number(<<"1">>)),
     Facet("exclusiveMaximum", Number(<<"2", ".", "5">>)),
     Facet("pattern", Quoted("x")),
     Facet("minLength", Number(<<"3">>)),
     Facet("maxItems", Number(<<"1">>)),
     Facet("minProperties", Number(<<"2">>)),
     Facet("minLength", Number(<<"1", ".", "5">>)),
     Facet("minimum", tNUMBER),
     Facet("foo", Number(<<"1">>))}

RECURSIVE FacetLists(_)
FacetLists(n) ==
    IF n = 1 THEN FacetTexts
    ELSE {l \o <<tCOMMA>> \o f : l \in FacetLists(n - 1), f \in FacetTexts}

\* a type with a declared base type
DeclaredTypes ==
    {<<tSTRING>>, <<tINTEGER>>, <<tNUMBER>>, <<tBOOLEAN>>, <<Regex("x")>>,
     <<tOPEN_BRACKET, tSTRING, tCLOSE_BRACKET>>,
     <<tOPEN_BRACE, Ident("b"), tCOLON, tSTRING, tCLOSE_BRACE>>}

FacetContents ==
    {pre \o <<tAT, tOPEN_PAREN>> \o l \o <<tCLOSE_PAREN>> :
        pre \in {<<tSTART, tEQUAL>> \o ty : ty \in DeclaredTypes}
                \cup {<<Ident("a"), tEQUAL, tSTRING, tSTART, tEQUAL, Ident("a")>>},
        l \in UNION {FacetLists(n) : n \in 1..MaxFacets}}

NextFacets == Compile(FacetContents) \/ ParseDef \/ PostPass

SpecFacets == Init /\ [][NextFacets]_vars

\* Read off the input: "@" opens the facet list, the type it applies to begins
\* after the "=" before it, and each "=" after it belongs to one facet
AtPos(toks) == CHOOSE i \in DOMAIN toks : toks[i].kind = "AT"
ClosePos(toks) == CHOOSE i \in DOMAIN toks : toks[i].kind = "CLOSE_PAREN"
TypeHead(toks) == toks[Max({i \in 1..AtPos(toks) : toks[i].kind = "EQUAL"}) + 1]
FacetsIn(toks) == {i \in DOMAIN toks : i > AtPos(toks) /\ toks[i].kind = "EQUAL"}
FacetId(toks, i) == toks[i - 1].value

\* the base type a type declares by the way it begins; a reference declares none
BaseType(tok) ==
    CASE tok.kind \in {"STRING", "REGEX"} -> PyStr(Lit("string"))
      [] tok.kind = "INTEGER" -> PyStr(Lit("integer"))
      [] tok.kind = "NUMBER" -> PyStr(Lit("number"))
      [] tok.kind = "BOOLEAN" -> PyStr(Lit("boolean"))
      [] tok.kind = "OPEN_BRACKET" -> PyStr(Lit("array"))
      [] tok.kind = "OPEN_BRACE" -> PyStr(Lit("object"))
      [] OTHER -> None

NumberFacets ==
    {Lit("minimum"), Lit("maximum"), Lit("exclusiveMinimum"), Lit("exclusiveMaximum")}
StringFacets == {Lit("pattern"), Lit("minLength"), Lit("maxLength")}
ArrayFacets == {Lit("minItems"), Lit("maxItems")}
ObjectFacets == {Lit("minProperties"), Lit("maxProperties")}

Applicable(f, base) ==
    \/ base = None
    \/ f \in NumberFacets /\ base \in {PyStr(Lit("number")), PyStr(Lit("integer"))}
    \/ f \in StringFacets /\ base = PyStr(Lit("string"))
    \/ f \in ArrayFacets /\ base = PyStr(Lit("array"))
    \/ f \in ObjectFacets /\ base = PyStr(Lit("object"))

\* facetId = value with a value of the facet's kind
WellFormed(toks, i) ==
    LET f == FacetId(toks, i)
        value == toks[i + 1]
    IN  \/ f \in NumberFacets /\ value.kind = "NUMBER" /\ NumParses(value.value)
        \/ f = Lit("pattern") /\ value.kind = "STR"
        \/ /\ f \in (StringFacets \cup ArrayFacets \cup ObjectFacets) \ {Lit("pattern")}
           /\ value.kind = "NUMBER" /\ IntParses(value.value)

FacetValue(toks, i) ==
    IF toks[i + 1].kind = "STR" THEN PyStr(Strip(toks[i + 1].value)) ELSE num(toks[i + 1].value)

\* the diagnostics of the current call about facet f
FacetDiagnostics(f) ==
    {k \in DOMAIN printed[Len(printed)] :
        /\ Len(printed[Len(printed)][k]) = 3
        /\ printed[Len(printed)][k][1] = "facet "
        /\ <<printed[Len(printed)][k][2]>> = f}

\* C8: when every facet of the list is well formed, each facet that is not
\* applicable to the declared base type of the node has exactly one diagnostic,
\* each facet applicable to it, or put on a reference, has none, there is no other
\* diagnostic, and every facet is in the output node with its (last) value
C8_FacetApplicability ==
    (pc = "returned" /\ \A i \in FacetsIn(tokens) : WellFormed(tokens, i)) =>
        /\ \A i \in FacetsIn(tokens) :
              LET f == FacetId(tokens, i)
                  same == {j \in FacetsIn(tokens) : FacetId(tokens, j) = f}
              IN  /\ Cardinality(FacetDiagnostics(f)) =
                        IF Applicable(f, BaseType(TypeHead(tokens))) THEN 0 ELSE Cardinality(same)
                  /\ Has(schema, f)
                  /\ Get(schema, f) = FacetValue(tokens, Max(same))
        /\ Len(printed[1]) =
              Cardinality({i \in FacetsIn(tokens) :
                              ~Applicable(FacetId(tokens, i), BaseType(TypeHead(tokens)))})

\* start = string @(minimum = 1)
C8_Witness ==
    /\ pc = "returned"
    /\ lines[1] = <<tSTART, tEQUAL, tSTRING, tAT, tOPEN_PAREN>>
                      \o Facet("minimum", Number(<<"1">>)) \o <<tCLOSE_PAREN>>
    /\ printed[1] = << Lit("facet ") \o Lit("minimum") \o Lit(" only applicable to numeric types") >>
    /\ Get(schema, Lit("minimum")) = PyInt(1)
    /\ returned[1] = PyInt(1)

KnownFacets == NumberFacets \cup StringFacets \cup ArrayFacets \cup ObjectFacets

\* C9: when the first facet of the list is not a facet the program knows, the
\* definition that holds the list, once parsed, leaves the cursor past the ")" of
\* the list, and the call reports the unrecognized facet once
C9_ResynchronizesAfterList ==
    (pc \in {"parsing", "checking", "returned"} /\ pos > AtPos(tokens)
        /\ FacetId(tokens, AtPos(tokens) + 3) \notin KnownFacets) =>
        /\ pos > ClosePos(tokens)
        /\ Count(Lit("unrecognized facet:") \o FacetId(tokens, AtPos(tokens) + 3)) = 1

-----------------------------------------------------------------------------
(* SpecEnd: one compilation, run to its end, of a token stream that may stop
   anywhere: short streams of any shape, and the beginnings of definitions, of
   facet lists and of property lists *)

MaxCutProps == 2

Prefixes(c) == {SubSeq(c, 1, n) : n \in 0..Len(c)}

NextEnd ==
    \/ Compile(SeqsUpTo(Alphabet, MaxTokens))
    \/ \E c \in DefTexts : Compile(Prefixes(c))
    \/ \E n \in 1..MaxFacets : \E l \in FacetLists(n) :
          Compile(Prefixes(<<tSTART, tEQUAL, tSTRING, tAT, tOPEN_PAREN>> \o l \o <<tCLOSE_PAREN>>))
    \/ \E n \in 1..MaxCutProps :
          \E props \in [1..n -> PropTexts], commas \in [2..n -> BOOLEAN] :
             Compile(Prefixes(PropContent(props, commas)))
    \/ ParseDef
    \/ PostPass

\* weak fairness of ParseDef, with its enabling condition written out: ParseDef can
\* be taken, and changes the state, exactly when pc = "parsing"
FairLoop == []<>(pc # "parsing") \/ []<><<ParseDef>>_vars

\* parseJsonRnc runs without interruption: once called, the step of its loop and
\* the checks after it are taken when they can be
SpecEnd == Init /\ [][NextEnd]_vars /\ FairLoop /\ WF_vars(PostPass)

\* the globals with the cursor on token p
At(p) == [Globals EXCEPT !.pos = p]
Advanced(s, p) == ~Ok(s) \/ s.pos > p

\* the recovery sets errorJsrnc is called with
Recoveries ==
    {PyList(<<"IDENT", "STR">>), PyList(<<"IDENT">>), PyList(<<"STR">>), PyList(<<"NUMBER">>),
     PyList(<<"CLOSE_BRACE">>), PyList(<<"CLOSE_BRACKET">>), PyList(<<"CLOSE_PAREN">>)}

\* the first token from p on whose kind is in the recovery set or is EOF
FirstOf(toks, p, kinds) ==
    Min({q \in p..Len(toks) : toks[q].kind \in kinds \cup {"EOF"}})

\* errorJsrnc called at any token with any recovery set raises nothing and leaves
\* the cursor on the first token of the recovery set or on EOF
RecoveryStops ==
    \A p \in DOMAIN tokens : \A R \in Recoveries :
        LET Then(s) == Ok(s) /\ s.pos = FirstOf(tokens, p, Members(R))
        IN  Then(errorJsrnc(At(p), "parseType", Lit("expected"), R))

\* an iteration of the loop of parseTypes, of parseProps or of parseFacets, begun
\* at any token that lets the loop go on, consumes a token or raises
LoopsAdvance ==
    \A p \in DOMAIN tokens :
        /\ tokens[p].kind \in {"VERT_BAR", "COMMA"}
              => Advanced(parseType(NextToken(At(p))).s, p)
        /\ tokens[p].kind \in {"COMMA", "IDENT", "STR", "OPEN_PAREN"}
              => Advanced(parseProp(IF tokens[p].kind = "COMMA" THEN NextToken(At(p)) ELSE At(p)).s, p)
        /\ (tokens[p].kind \in {"IDENT", "STR"} /\ tokens[p].value \in FacetIds)
              => \A theType \in {None, PyStr(Lit("string")), PyStr(Lit("array"))} :
                    Advanced(facetStep(At(p), <<>>, theType).s, p)

\* an iteration of the loop of parseJsonRnc consumes a token or ends the loop
DefinitionsAdvance == pc = "parsing" => (pos' > pos \/ pc' # "parsing")

\* next() called after the EOF token ends the loop with one diagnostic more,
\* 'unexpected end of file'
EndOfFileEndsPass ==
    (pc = "parsing" /\ parseDef(Globals).exc = "StopIteration") =>
        /\ pc' = "checking"
        /\ printed' = <<Append(parseDef(Globals).out, Lit("unexpected end of file"))>>

Running == pc \in {"parsing", "checking"}
Ended == pc \in {"returned", "crashed"}

\* C11: every compilation ends, by a return or by an exception that leaves
\* parseJsonRnc; the recovery loop of errorJsrnc stops at the first token of its
\* recovery set or at EOF and raises nothing; each iteration of the loops of
\* parseJsonRnc, parseTypes, parseProps and parseFacets consumes a token or ends
\* the loop; reading after EOF ends the pass with one 'unexpected end of file'
C11_EveryCompilationEnds ==
    /\ [](RecoveryStops /\ LoopsAdvance)
    /\ [][DefinitionsAdvance /\ EndOfFileEndsPass]_vars
    /\ (Running ~> Ended)

\* = string : the recovery of parseDef skips to EOF, and the next() of line 153
\* ends the pass
C11_Witness ==
    /\ pc = "returned"
    /\ lines[1] = <<tEQUAL, tSTRING>>
    /\ pos = 3
    /\ printed[1] = <<Lit("identifier expected at start of definition"),
                       Lit("unexpected end of file"), Lit("no start definition")>>
    /\ returned[1] = PyInt(3)

-----------------------------------------------------------------------------
(* SpecBare: one compilation of an object whose properties may be written
   without a type, at the top, in a definition or in an array *)

MaxBare == 2

BareTexts ==
    {<<Ident("a")>>, <<Ident("a"), tINTERROGATION>>, <<Quoted("b")>>,
     <<Ident("a"), tCOLON, tSTRING>>,
     <<Ident("b"), tCOLON, tOPEN_BRACKET, tSTRING, tCLOSE_BRACKET>>,
     <<Ident("b"), tINTERROGATION, tCOLON, tSTRING, tVERT_BAR, tINTEGER>>}

\* what stands before and after the object
BareContexts ==
    {<< <<tSTART, tEQUAL>>, <<>> >>,
     << <<tSTART, tEQUAL, tOPEN_BRACKET>>, <<tCLOSE_BRACKET>> >>,
     << <<Ident("c"), tEQUAL>>, <<tSTART, tEQUAL, Ident("c")>> >>}

BareContent(ctx, props, commas) ==
    ctx[1] \o <<tOPEN_BRACE>> \o PropList(props, commas, Len(props)) \o <<tCLOSE_BRACE>> \o ctx[2]

NextBare ==
    \/ \E ctx \in BareContexts : \E n \in 1..MaxBare :
          \E props \in [1..n -> BareTexts], commas \in [2..n -> BOOLEAN] :
             Compile({BareContent(ctx, props, commas)})
    \/ ParseDef
    \/ PostPass

SpecBare == Init /\ [][NextBare]_vars

\* a mapping with a type, $ref or oneOf key
IsFragment(v) ==
    v.t = "dict" /\ (Has(v, Lit("type")) \/ Has(v, Lit("$ref")) \/ Has(v, Lit("oneOf")))

\* the values v holds under properties, items and oneOf are type fragments, and
\* so on inside them
RECURSIVE Typed(_)
Typed(v) ==
    /\ Has(v, Lit("properties")) =>
          \A k \in Keys(Get(v, Lit("properties"))) :
              /\ IsFragment(Get(Get(v, Lit("properties")), k))
              /\ Typed(Get(Get(v, Lit("properties")), k))
    /\ Has(v, Lit("items")) =>
          IsFragment(Get(v, Lit("items"))) /\ Typed(Get(v, Lit("items")))
    /\ Has(v, Lit("oneOf")) =>
          \A m \in Members(Get(v, Lit("oneOf"))) : IsFragment(m) /\ Typed(m)

\* C12: a document returned by parseJsonRnc holds a type fragment, never a null,
\* for every property, every items, every oneOf member and every definition
C12_NoNullType ==
    (pc = "returned" /\ returned[1].t = "dict") =>
        /\ Typed(returned[1])
        /\ \A k \in Keys(defsOf(returned[1])) :
              IsFragment(Get(defsOf(returned[1]), k)) /\ Typed(Get(defsOf(returned[1]), k))

====
